---- MODULE Spec2Model ----
(***************************************************************************)
(* The workflow graph engine of app/engine.py (Graph.run and               *)
(* Graph._get_next_node), the tool registry of app/registry.py and the     *)
(* request handler run_graph of app/main.py that calls the engine, and the *)
(* code-review workflow of app/workflows/code_review.py run by the engine. *)
(*                                                                         *)
(* Python objects that can be shared and mutated are kept in two heaps:    *)
(* dicts (dict objects, by name) and lists (list objects, by number).  A   *)
(* value held by a dict is an integer or a reference to a list object, so  *)
(* that a shallow dict.copy() shares the lists of the dict it copies.  The *)
(* code-review tools build new strings and lists and change none in place: *)
(* their values are held by the dict itself.                               *)
(***************************************************************************)
EXTENDS Integers, Sequences, FiniteSets, TLC

\* Bounds of the model.
MaxVal == 1
MaxEdges == 2

\* engine.py line 61.
MAX_STEPS == 100

\* Python's None; `while current_node_name` also stops on the empty string.
None == "None"
Falsy(s) == s = None \/ s = ""

IntVal(i) == [kind |-> "int", v |-> i]
RefVal(r) == [kind |-> "ref", v |-> r]

\* dict.get(key, default) on a mapping of values, for an integer key.
GetInt(st, key, default) == IF key \in DOMAIN st THEN st[key].v ELSE default

\* value of a mapping with every list reference replaced by the list's content
Deep(st, ls) ==
    [k \in DOMAIN st |->
        IF st[k].kind = "ref" THEN [kind |-> "list", v |-> ls[st[k].v]] ELSE st[k]]

(***************************************************************************)
(* Edges and routing.                                                      *)
(***************************************************************************)
Edge(s, t, c) == [source_node |-> s, target_node |-> t, condition |-> c]

\* The guard callables an edge may carry; None is the unconditional edge.
\* has_issues is the guard of the code-review graph.
Conditions == {"always", "never", "has_issues", "raises"}

ConditionRaises(c, st) == c = "raises"

ConditionValue(c, st) ==
    CASE c = "always" -> TRUE
      [] c = "never" -> FALSE
      [] c = "has_issues" -> GetInt(st, "issue_count", 0) > 0
      [] OTHER -> FALSE

\* possible_edges, as the indexes into the edge list, in declaration order
PossibleEdges(es, current_node) ==
    SelectSeq([i \in 1..Len(es) |-> i], LAMBDA i : es[i].source_node = current_node)

RECURSIVE ScanEdges(_, _, _, _, _)
\* the for loop over possible_edges from position p, evaluated being the
\* indexes of the edges whose guard has been called so far
ScanEdges(es, possible, p, st, evaluated) ==
    IF p > Len(possible)
    THEN [raised |-> FALSE, target |-> None, evaluated |-> evaluated]
    ELSE LET i == possible[p]
             edge == es[i]
         IN  IF edge.condition # None
             THEN IF ConditionRaises(edge.condition, st)
                  THEN [raised |-> TRUE, target |-> None,
                        evaluated |-> evaluated \cup {i}]
                  ELSE IF ConditionValue(edge.condition, st)
                  THEN [raised |-> FALSE, target |-> edge.target_node,
                        evaluated |-> evaluated \cup {i}]
                  ELSE ScanEdges(es, possible, p + 1, st, evaluated \cup {i})
             ELSE [raised |-> FALSE, target |-> edge.target_node,
                   evaluated |-> evaluated]

\* Variant: guarded edges are tried before unconditional ones, whatever the
\* declaration order (the reading of run's docstring, lines 53-54).
get_next_node_guarded_first(es, current_node, st) ==
    LET possible == PossibleEdges(es, current_node)
        guarded == SelectSeq(possible, LAMBDA i : es[i].condition # None)
        default == SelectSeq(possible, LAMBDA i : es[i].condition = None)
    IN  ScanEdges(es, guarded \o default, 1, st, {})

\* Variant: every guard of the possible edges is called before the scan.
get_next_node_eager(es, current_node, st) ==
    LET possible == PossibleEdges(es, current_node)
        guarded == {possible[p] : p \in {q \in 1..Len(possible) :
                                          es[possible[q]].condition # None}}
        r == ScanEdges(es, possible, 1, st, {})
    IN  IF \E i \in guarded : ConditionRaises(es[i].condition, st)
        THEN [raised |-> TRUE, target |-> None, evaluated |-> guarded]
        ELSE [raised |-> r.raised, target |-> r.target, evaluated |-> guarded]

\* Variant: a node none of whose edges matches is an error.
get_next_node_strict(es, current_node, st) ==
    LET r == ScanEdges(es, PossibleEdges(es, current_node), 1, st, {})
    IN  IF r.target = None
        THEN [raised |-> TRUE, target |-> None, evaluated |-> r.evaluated]
        ELSE r

get_next_node(es, current_node, st) ==
    ScanEdges(es, PossibleEdges(es, current_node), 1, st, {})

\* the record kept of one routing call: its arguments and its outcome
RouteRecord(es, current_node, st) ==
    LET r == get_next_node(es, current_node, st)
    IN  [from |-> current_node, st |-> st, raised |-> r.raised,
         target |-> r.target, evaluated |-> r.evaluated]

NoRoute == [from |-> None, st |-> << >>, raised |-> FALSE, target |-> None,
            evaluated |-> {}]

(***************************************************************************)
(* The code-review workflow of app/workflows/code_review.py.  A Python str *)
(* is the sequence of its characters.                                      *)
(***************************************************************************)
StrVal(s) == [kind |-> "str", v |-> s]
ListVal(l) == [kind |-> "list", v |-> l]
FloatVal(num, den) == [kind |-> "float", v |-> <<num, den>>]

\* dict.get(key, default) for a str or list key
GetVal(st, key, default) == IF key \in DOMAIN st THEN st[key].v ELSE default

\* text.startswith(prefix)
StartsWith(s, p) == Len(s) >= Len(p) /\ SubSeq(s, 1, Len(p)) = p

\* text.find(sub) + 1: the first position where sub occurs in s, or 0
Find(s, sub) ==
    LET at == { i \in 1..(Len(s) - Len(sub) + 1) : SubSeq(s, i, i + Len(sub) - 1) = sub }
    IN  IF at = {} THEN 0 ELSE CHOOSE i \in at : \A j \in at : i <= j

\* sub in text
Contains(s, sub) == Find(s, sub) # 0

RECURSIVE Split(_, _)
\* text.split(sep)
Split(s, sep) ==
    LET i == Find(s, sep)
    IN  IF i = 0 THEN <<s>>
        ELSE <<SubSeq(s, 1, i - 1)>> \o Split(SubSeq(s, i + Len(sep), Len(s)), sep)

RECURSIVE Replace(_, _, _)
\* text.replace(old, new): every occurrence, left to right, without overlap
Replace(s, old, new) ==
    LET i == Find(s, old)
    IN  IF i = 0 THEN s
        ELSE SubSeq(s, 1, i - 1) \o new
                 \o Replace(SubSeq(s, i + Len(old), Len(s)), old, new)

Whitespace == {" ", "\t", "\n"}

RECURSIVE LStrip(_)
LStrip(s) == IF s # << >> /\ Head(s) \in Whitespace THEN LStrip(Tail(s)) ELSE s

RECURSIVE RStrip(_)
RStrip(s) ==
    IF s # << >> /\ s[Len(s)] \in Whitespace THEN RStrip(SubSeq(s, 1, Len(s) - 1)) ELSE s

\* Variant: only the trailing whitespace is removed.
Strip_trailing(s) == RStrip(s)

\* text.strip()
Strip(s) == LStrip(RStrip(s))

RECURSIVE Join(_, _)
\* sep.join(parts)
Join(parts, sep) ==
    IF parts = << >> THEN << >>
    ELSE IF Len(parts) = 1 THEN parts[1]
    ELSE parts[1] \o sep \o Join(Tail(parts), sep)

\* The literals of code_review.py.
NewLine ==
    <<"\n">>

DefSpace ==
    <<"d", "e", "f", " ">>

OpenParen ==
    <<"(">>

Hash ==
    <<"#">>

RequestWord ==
    <<"r", "e", "q", "u", "e", "s", "t">>

FlaskWord ==
    <<"f", "l", "a", "s", "k">>

PrintWord ==
    <<"p", "r", "i", "n", "t">>

PrintCall ==
    <<"p", "r", "i", "n", "t", "(">>

CommentedPrintCall ==
    <<"#", " ", "p", "r", "i", "n", "t", "(">>

FlaskIssue ==
    <<"U", "s", "i", "n", "g", " ", "F", "l", "a", "s", "k", " ", "b", "u",
    "t", " ", "n", "o", "t", " ", "r", "e", "q", "u", "e", "s", "t">>

PrintIssuePrefix ==
    <<"A", "v", "o", "i", "d", " ", "u", "s", "i", "n", "g", " ", "p", "r",
    "i", "n", "t", " ", "s", "t", "a", "t", "e", "m", "e", "n", "t", ":", " ">>

FixPrefix ==
    <<"\n", "#", " ", "F", "I", "X", ":", " ">>

\* The lines initial code texts are made of: a print call at the start of a
\* line, an indented one, one after another statement, a commented one, a
\* function definition, and lines that mention flask and request.
LinePrint ==
    <<"p", "r", "i", "n", "t", "(", "1", ")">>

LineIndentedPrint ==
    <<" ", " ", "p", "r", "i", "n", "t", "(", "1", ")">>

LineMidPrint ==
    <<"x", ";", "p", "r", "i", "n", "t", "(", "1", ")">>

LineCommentedPrint ==
    <<"#", "p", "r", "i", "n", "t", "(", "1", ")">>

LineDef ==
    <<"d", "e", "f", " ", "f", "(", "x", ")", ":">>

LineFlask ==
    <<"f", "l", "a", "s", "k">>

LineRequest ==
    <<"r", "e", "q", "u", "e", "s", "t">>

\* One message of the "log" list: an f-string's text and the numbers put in it.
Msg(text, args) == [text |-> text, args |-> args]

\* state.get("log", []) + [message]
LogPlus(st, m) == ListVal(GetVal(st, "log", << >>) \o <<m>>)

\* code_review.py lines 6-14
extract_functions(st) ==
    LET code == GetVal(st, "code", << >>)
        parts == Tail(Split(code, DefSpace))
        functions == [i \in 1..Len(parts) |-> Split(parts[i], OpenParen)[1]]
    IN  ("functions" :> ListVal(functions)) @@
        ("log" :> LogPlus(st, Msg("Extracted functions", <<Len(functions)>>)))

\* code_review.py lines 16-24
check_complexity(st) ==
    LET code == GetVal(st, "code", << >>)
    IN  ("complexity" :> FloatVal(Len(code), 10)) @@
        ("log" :> LogPlus(st, Msg("Calculated complexity", <<Len(code), 10>>)))

\* code_review.py line 41: the line is reported as a print statement
ActivePrint(line) == Contains(line, PrintCall) /\ ~StartsWith(Strip(line), Hash)

\* code_review.py lines 26-45
detect_issues(st) ==
    LET code == GetVal(st, "code", << >>)
        rule1 == IF ~Contains(code, RequestWord) /\ Contains(code, FlaskWord)
                 THEN <<FlaskIssue>> ELSE << >>
        lines == Split(code, NewLine)
        hits == SelectSeq(lines, ActivePrint)
        rule2 == IF hits = << >> THEN << >>
                 ELSE <<PrintIssuePrefix \o Strip(hits[1])>>
        issues == rule1 \o rule2
    IN  ("issues" :> ListVal(issues)) @@
        ("issue_count" :> IntVal(Len(issues))) @@
        ("log" :> LogPlus(st, Msg("Detected issues", <<Len(issues)>>)))

RECURSIVE FixAll(_, _)
\* code_review.py lines 57-61: the for loop over the issues
FixAll(code, issues) ==
    IF issues = << >> THEN code
    ELSE FixAll(IF Contains(Head(issues), PrintWord)
                THEN Replace(code, PrintCall, CommentedPrintCall)
                ELSE code \o FixPrefix \o Head(issues),
                Tail(issues))

\* code_review.py lines 47-73
suggest_improvements(st) ==
    LET code == GetVal(st, "code", << >>)
        issues == GetVal(st, "issues", << >>)
    IN  ("code" :> StrVal(FixAll(code, issues))) @@
        ("quality_score" :> IntVal(GetInt(st, "quality_score", 0) + 20)) @@
        ("issues" :> ListVal(<< >>)) @@
        ("issue_count" :> IntVal(0)) @@
        ("log" :> LogPlus(st, Msg("Applied improvements", << >>)))

\* code_review.py lines 76-79: the names the workflow's tools are registered by
ReviewTools ==
    {"extract_functions", "check_complexity", "detect_issues", "suggest_improvements"}

(***************************************************************************)
(* Tools.                                                                  *)
(***************************************************************************)
\* The callables registered before any run, and a name no one registers.
Registered == {"dec", "touch", "append", "nonmap", "fail"}
ToolNames == Registered \cup {"ghost"}

Keys == {"issue_count", "quality_score", "log"}

DictResult(items) == [is_dict |-> TRUE, items |-> items]
RawResult(raw) == [is_dict |-> FALSE, raw |-> raw]

\* One call func(state): what it returns or raises, and the list heap after it.
\*   dec     returns {"issue_count": max(issue_count - 1, 0)}
\*   touch   returns {"quality_score": 1}
\*   append  does state["log"].append(1) in place and returns {}
\*   nonmap  returns a string
\*   fail    raises
\* and the four tools of the code-review workflow, which change nothing in place.
CallTool(func, st, ls) ==
    CASE func = "dec" ->
            [raised |-> FALSE, lists |-> ls,
             result |-> DictResult([k \in {"issue_count"} |->
                 IntVal(IF GetInt(st, "issue_count", 0) > 0
                        THEN GetInt(st, "issue_count", 0) - 1 ELSE 0)])]
      [] func = "touch" ->
            [raised |-> FALSE, lists |-> ls,
             result |-> DictResult([k \in {"quality_score"} |-> IntVal(1)])]
      [] func = "append" ->
            IF "log" \in DOMAIN st /\ st["log"].kind = "ref"
            THEN [raised |-> FALSE,
                  lists |-> [ls EXCEPT ![st["log"].v] = Append(@, 1)],
                  result |-> DictResult(<< >>)]
            ELSE [raised |-> TRUE, lists |-> ls, result |-> RawResult("KeyError")]
      [] func = "nonmap" ->
            [raised |-> FALSE, lists |-> ls, result |-> RawResult("ok")]
      [] func = "extract_functions" ->
            [raised |-> FALSE, lists |-> ls, result |-> DictResult(extract_functions(st))]
      [] func = "check_complexity" ->
            [raised |-> FALSE, lists |-> ls, result |-> DictResult(check_complexity(st))]
      [] func = "detect_issues" ->
            [raised |-> FALSE, lists |-> ls, result |-> DictResult(detect_issues(st))]
      [] func = "suggest_improvements" ->
            [raised |-> FALSE, lists |-> ls,
             result |-> DictResult(suggest_improvements(st))]
      [] OTHER ->
            [raised |-> TRUE, lists |-> ls, result |-> RawResult("RuntimeError")]

\* Variant: the updates replace the state instead of being merged into it.
Update_replace(st, items) == items

\* state.update(updates)
Update(st, items) ==
    [k \in DOMAIN st \cup DOMAIN items |->
        IF k \in DOMAIN items THEN items[k] ELSE st[k]]

\* Variant: a return value that is no mapping empties the state.
Merge_strict(st, updates) == IF updates.is_dict THEN Update(st, updates.items) ELSE << >>

\* engine.py lines 78-79
Merge(st, updates) == IF updates.is_dict THEN Update(st, updates.items) ELSE st

(***************************************************************************)
(* State.                                                                  *)
(***************************************************************************)
VARIABLES
    nodes,              \* Graph.nodes: node name -> tool_name
    edges,              \* Graph.edges
    start_node,         \* Graph.start_node
    tools,              \* ToolRegistry._tools: name -> callable
    dicts,              \* the dict objects: "caller" (the request's), "work"
    lists,              \* the list objects
    pc,                 \* where the request is
    current_node_name,  \* run's locals
    state,              \*   the dict object `state` names
    logs,
    steps,
    result,             \* what run returned
    exc,                \* what run raised
    runs,               \* main.py's runs[run_id]
    response,           \* what run_graph answers
    calls,              \* the tool invocations made, in order
    guard_calls,        \* the number of guard evaluations made
    last_route,         \* the last call of _get_next_node
    caller_before,      \* the caller's initial state, lists included, at the call
    tool_keys,          \* the keys of ToolRegistry._tools, in insertion order
    registered,         \* the register calls made so far, in order
    lookup,             \* what the last get_tool or list_tools call gave
    rs                  \* the locals of the runs that share the graph

vars == <<nodes, edges, start_node, tools, dicts, lists, pc, current_node_name,
          state, logs, steps, result, exc, runs, response, calls, guard_calls,
          last_route, caller_before, tool_keys, registered, lookup, rs>>

graph_vars == <<nodes, edges, start_node, tools>>

registry_vars == <<tool_keys, registered, lookup>>

NodeNames == {"A", "B"}
StartNodes == {"A", "Z", ""}

\* The graphs a run is given: edge lists over nodes A and B (Z names no node).
RunEdgeLists ==
    { << >>,
      <<Edge("A", "B", None)>>,
      <<Edge("A", "B", "never")>>,
      <<Edge("A", "Z", None)>>,
      <<Edge("A", "B", "raises")>>,
      <<Edge("A", "A", "always")>>,
      <<Edge("A", "B", None), Edge("B", "A", "has_issues")>>,
      <<Edge("A", "B", "always"), Edge("B", "A", "always")>>,
      <<Edge("A", "B", None), Edge("B", "A", "raises")>>,
      <<Edge("A", "A", "never"), Edge("A", "B", None)>>,
      <<Edge("A", "B", "always"), Edge("A", "A", "raises")>>,
      <<Edge("A", "B", "has_issues"), Edge("A", "A", "raises")>>,
      <<Edge("A", "B", None), Edge("A", "A", None), Edge("B", "A", "never")>>,
      <<Edge("A", "A", "has_issues"), Edge("A", "Z", None)>> }

\* The caller's initial states: a log list, and issue_count set or not (to a
\* small number, or to as many issues as the run has steps).
InitialStates ==
    { [k \in {"log"} |-> RefVal(1)] }
    \cup { [k \in {"log", "issue_count"} |->
              IF k = "log" THEN RefVal(1) ELSE IntVal(n)] :
                 n \in (0..MaxVal) \cup {MAX_STEPS} }

NoResponse == [status_code |-> 0]

\* run has neither returned nor raised
NoResult == [final_state |-> None, logs |-> << >>]
NoExc == [type |-> None, msg |-> << >>]

NoLookup == [op |-> "none", name |-> None, raised |-> FALSE, value |-> << >>]

\* The registry after register(name, name) for each name of order.
Preregistered(order) ==
    /\ tool_keys = order
    /\ registered = [i \in 1..Len(order) |-> [name |-> order[i], func |-> order[i]]]
    /\ lookup = NoLookup

\* The order in which the tools of the runs are registered.
RegisteredOrder == <<"dec", "touch", "append", "nonmap", "fail">>

Init ==
    /\ nodes \in [NodeNames -> ToolNames]
    /\ edges \in RunEdgeLists
    /\ start_node \in StartNodes
    /\ tools = [n \in Registered |-> n]
    /\ Preregistered(RegisteredOrder)
    /\ \E st \in InitialStates :
          /\ dicts = [d \in {"caller"} |-> st]
          /\ lists = [r \in {1} |-> << >>]
          /\ caller_before = Deep(st, [r \in {1} |-> << >>])
    /\ pc = "idle"
    /\ current_node_name = None
    /\ state = None
    /\ logs = << >>
    /\ steps = 0
    /\ result = NoResult
    /\ exc = NoExc
    /\ runs = << >>
    /\ response = NoResponse
    /\ calls = << >>
    /\ guard_calls = 0
    /\ last_route = NoRoute
    /\ rs = << >>

(***************************************************************************)
(* run_graph and Graph.run.                                                *)
(***************************************************************************)
\* initial_state.copy(): a new dict object with the same items
CopyState(ds) ==
    [ref |-> "work",
     dicts |-> [d \in DOMAIN ds \cup {"work"} |-> ds["caller"]]]

\* main.py lines 76-84 and engine.py lines 57-61
RunGraph ==
    /\ pc = "idle"
    /\ runs' = [status |-> "running", state |-> "caller", logs |-> << >>,
                error |-> None]
    /\ current_node_name' = start_node
    /\ state' = CopyState(dicts).ref
    /\ dicts' = CopyState(dicts).dicts
    /\ logs' = << >>
    /\ steps' = 0
    /\ pc' = "loop"
    /\ UNCHANGED <<graph_vars, registry_vars, rs, lists, result, exc, response, calls, guard_calls,
                   last_route, caller_before>>

\* Variant: the ceiling test lets one more step through.
LoopCondition_inclusive == ~Falsy(current_node_name) /\ steps <= MAX_STEPS

\* engine.py line 63
LoopCondition == ~Falsy(current_node_name) /\ steps < MAX_STEPS

\* engine.py line 100
Return ==
    /\ pc = "loop"
    /\ ~LoopCondition
    /\ result' = [final_state |-> state, logs |-> logs]
    /\ pc' = "returned"
    /\ UNCHANGED <<graph_vars, registry_vars, rs, dicts, lists, current_node_name, state, logs, steps,
                   exc, runs, response, calls, guard_calls, last_route,
                   caller_before>>

ErrorRecord(e) == [step |-> steps, node |-> current_node_name, error |-> e.msg]

\* Variant: the node is looked up inside the try block, so the failure is
\* recorded in the trace.
NodeNotFound_recorded ==
    /\ pc = "loop"
    /\ ~Falsy(current_node_name) /\ steps < MAX_STEPS
    /\ current_node_name \notin DOMAIN nodes
    /\ logs' = Append(logs, [step |-> steps, node |-> current_node_name,
                             error |-> <<"Node not found in graph",
                                         current_node_name>>])
    /\ exc' = [type |-> "ValueError",
               msg |-> <<"Node not found in graph", current_node_name>>]
    /\ pc' = "raised"
    /\ UNCHANGED <<graph_vars, registry_vars, rs, dicts, lists, current_node_name, state, steps,
                   result, runs, response, calls, guard_calls, last_route,
                   caller_before>>

\* engine.py lines 64-65
NodeNotFound ==
    /\ pc = "loop"
    /\ LoopCondition
    /\ current_node_name \notin DOMAIN nodes
    /\ exc' = [type |-> "ValueError",
               msg |-> <<"Node not found in graph", current_node_name>>]
    /\ pc' = "raised"
    /\ UNCHANGED <<graph_vars, registry_vars, rs, dicts, lists, current_node_name, state, logs, steps,
                   result, runs, response, calls, guard_calls, last_route,
                   caller_before>>

\* Variant: the tool is looked up outside the try block, so nothing is recorded.
ToolNotFound_unrecorded ==
    /\ pc = "loop"
    /\ ~Falsy(current_node_name) /\ steps < MAX_STEPS
    /\ current_node_name \in DOMAIN nodes
    /\ nodes[current_node_name] \notin DOMAIN tools
    /\ exc' = [type |-> "ValueError",
               msg |-> <<"Tool not found", nodes[current_node_name]>>]
    /\ pc' = "raised"
    /\ UNCHANGED <<graph_vars, registry_vars, rs, dicts, lists, current_node_name, state, logs, steps,
                   result, runs, response, calls, guard_calls, last_route,
                   caller_before>>

\* registry.py lines 25-26, caught at engine.py lines 87-93
ToolNotFound ==
    /\ pc = "loop"
    /\ LoopCondition
    /\ current_node_name \in DOMAIN nodes
    /\ nodes[current_node_name] \notin DOMAIN tools
    /\ LET e == [type |-> "ValueError",
                 msg |-> <<"Tool not found", nodes[current_node_name]>>]
       IN  /\ logs' = Append(logs, ErrorRecord(e))
           /\ exc' = e
    /\ pc' = "raised"
    /\ UNCHANGED <<graph_vars, registry_vars, rs, dicts, lists, current_node_name, state, steps,
                   result, runs, response, calls, guard_calls, last_route,
                   caller_before>>

\* engine.py lines 67-75: the tool is looked up and called
InvokeTool ==
    /\ pc = "loop"
    /\ LoopCondition
    /\ current_node_name \in DOMAIN nodes
    /\ nodes[current_node_name] \in DOMAIN tools
    /\ calls' = Append(calls, [step |-> steps, node |-> current_node_name,
                               func |-> tools[nodes[current_node_name]]])
    /\ pc' = "tool"
    /\ UNCHANGED <<graph_vars, registry_vars, rs, dicts, lists, current_node_name, state, logs, steps,
                   result, exc, runs, response, guard_calls, last_route,
                   caller_before>>

\* the call in progress
Outcome == CallTool(calls[Len(calls)].func, dicts[state], lists)

\* Variant: the failure is recorded and the loop goes on to try the node again.
ToolRaises_retry ==
    /\ pc = "tool"
    /\ CallTool(calls[Len(calls)].func, dicts[state], lists).raised
    /\ logs' = Append(logs, [step |-> steps, node |-> current_node_name,
                             error |-> <<"RuntimeError">>])
    /\ pc' = "loop"
    /\ UNCHANGED <<graph_vars, registry_vars, rs, dicts, lists, current_node_name, state, steps, result,
                   exc, runs, response, calls, guard_calls, last_route,
                   caller_before>>

\* engine.py lines 87-93: the tool raised
ToolRaises ==
    /\ pc = "tool"
    /\ Outcome.raised
    /\ LET e == [type |-> Outcome.result.raw, msg |-> <<Outcome.result.raw>>]
       IN  /\ logs' = Append(logs, ErrorRecord(e))
           /\ exc' = e
    /\ lists' = Outcome.lists
    /\ pc' = "raised"
    /\ UNCHANGED <<graph_vars, registry_vars, rs, dicts, current_node_name, state, steps, result,
                   runs, response, calls, guard_calls, last_route, caller_before>>

\* Variant: the records are numbered from one.
StepRecord_one_based(updates, merged) ==
    [step |-> steps + 1, node |-> current_node_name, updates |-> updates,
     state_snapshot |-> merged]

\* engine.py lines 78-86: the merge and the step's record
StepRecord(updates, merged) ==
    [step |-> steps, node |-> current_node_name, updates |-> updates,
     state_snapshot |-> merged]

\* engine.py lines 75-98: the tool returned; merge, record, count, route
ToolReturns ==
    /\ pc = "tool"
    /\ ~Outcome.raised
    /\ LET merged == Merge(dicts[state], Outcome.result)
           route == RouteRecord(edges, current_node_name, merged)
       IN  /\ dicts' = [dicts EXCEPT ![state] = merged]
           /\ lists' = Outcome.lists
           /\ logs' = Append(logs, StepRecord(Outcome.result, merged))
           /\ steps' = steps + 1
           /\ last_route' = route
           /\ guard_calls' = guard_calls + Cardinality(route.evaluated)
           /\ IF route.raised
              THEN /\ exc' = [type |-> "GuardError", msg |-> <<"GuardError">>]
                   /\ pc' = "raised"
                   /\ UNCHANGED current_node_name
              ELSE /\ current_node_name' = route.target
                   /\ pc' = "loop"
                   /\ UNCHANGED exc
    /\ UNCHANGED <<graph_vars, registry_vars, rs, state, result, runs, response, calls, caller_before>>

\* main.py lines 86-89
RunCompleted ==
    /\ pc = "returned"
    /\ runs' = [runs EXCEPT !.status = "completed", !.state = result.final_state,
                            !.logs = result.logs]
    /\ response' = [status_code |-> 200, final_state |-> result.final_state,
                    logs |-> result.logs]
    /\ pc' = "completed"
    /\ UNCHANGED <<graph_vars, registry_vars, rs, dicts, lists, current_node_name, state, logs, steps,
                   result, exc, calls, guard_calls, last_route, caller_before>>

\* main.py lines 90-93
RunFailed ==
    /\ pc = "raised"
    /\ runs' = [runs EXCEPT !.status = "failed", !.error = exc.msg]
    /\ response' = [status_code |-> 500, detail |-> exc.msg]
    /\ pc' = "failed"
    /\ UNCHANGED <<graph_vars, registry_vars, rs, dicts, lists, current_node_name, state, logs, steps,
                   result, exc, calls, guard_calls, last_route, caller_before>>

Next ==
    \/ RunGraph
    \/ Return
    \/ NodeNotFound
    \/ ToolNotFound
    \/ InvokeTool
    \/ ToolRaises
    \/ ToolReturns
    \/ RunCompleted
    \/ RunFailed

Spec == Init /\ [][Next]_vars

(***************************************************************************)
(* Routing on its own: _get_next_node applied to an edge list, a current   *)
(* node and a state.                                                       *)
(***************************************************************************)
RouteSources == {"A", "B"}
RouteTargets == {"X", "Y"}

EdgeAlphabet ==
    { Edge(s, t, c) : s \in RouteSources, t \in RouteTargets,
                      c \in Conditions \cup {None} }

EdgeLists == UNION { [1..k -> EdgeAlphabet] : k \in 0..MaxEdges }

InitRouting ==
    /\ nodes = << >>
    /\ edges \in EdgeLists
    /\ start_node = None
    /\ tools = [n \in Registered |-> n]
    /\ Preregistered(RegisteredOrder)
    /\ \E st \in InitialStates :
          /\ dicts = [d \in {"caller", "work"} |-> st]
          /\ lists = [r \in {1} |-> << >>]
          /\ caller_before = Deep(st, [r \in {1} |-> << >>])
    /\ pc = "route"
    /\ current_node_name \in RouteSources
    /\ state = "work"
    /\ logs = << >>
    /\ steps = 0
    /\ result = NoResult
    /\ exc = NoExc
    /\ runs = << >>
    /\ response = NoResponse
    /\ calls = << >>
    /\ guard_calls = 0
    /\ last_route = NoRoute
    /\ rs = << >>

\* engine.py line 98, the call alone
Route ==
    /\ pc = "route"
    /\ LET route == RouteRecord(edges, current_node_name, dicts[state])
       IN  /\ last_route' = route
           /\ guard_calls' = guard_calls + Cardinality(route.evaluated)
           /\ IF route.raised
              THEN /\ exc' = [type |-> "GuardError", msg |-> <<"GuardError">>]
                   /\ pc' = "raised"
                   /\ UNCHANGED current_node_name
              ELSE /\ current_node_name' = route.target
                   /\ pc' = "routed"
                   /\ UNCHANGED exc
    /\ UNCHANGED <<graph_vars, registry_vars, rs, dicts, lists, state, logs, steps, result, runs,
                   response, calls, caller_before>>

NextRouting == Route

SpecRouting == InitRouting /\ [][NextRouting]_vars

(***************************************************************************)
(* Properties.                                                             *)
(***************************************************************************)
\* a guard that is called on st and answers true
GuardTrue(c, st) == ~ConditionRaises(c, st) /\ ConditionValue(c, st)

\* the edges of es that leave node from and are unconditional or have a true guard
Matching(es, from, st) ==
    { i \in 1..Len(es) :
        /\ es[i].source_node = from
        /\ (es[i].condition = None \/ GuardTrue(es[i].condition, st)) }

\* the first edge of a non-empty set of indexes
First(S) == CHOOSE i \in S : \A j \in S : i <= j

\* a guard of an edge from node from, declared before edge j, raises on st
RaisesBefore(es, from, st, j) ==
    \E i \in 1..Len(es) :
        /\ i < j
        /\ es[i].source_node = from
        /\ es[i].condition # None
        /\ ConditionRaises(es[i].condition, st)

Routed == last_route.from # None

RECURSIVE Reach(_, _)
Reach(S, k) ==
    IF k = 0 THEN S
    ELSE Reach(S \cup { edges[PossibleEdges(edges, n)[1]].target_node :
                          n \in { m \in S : PossibleEdges(edges, m) # << >> } },
               k - 1)

\* a cycle whose guards are always true: every node the run can visit is a node
\* of the graph with a tool that returns, and its first edge is guarded by a
\* guard that is true on every state
GuardedCycle ==
    /\ pc \notin {"route", "routed"}
    /\ start_node \in DOMAIN nodes
    /\ \A n \in Reach({start_node}, Cardinality(DOMAIN nodes)) :
          /\ n \in DOMAIN nodes
          /\ nodes[n] \in {"dec", "touch", "append", "nonmap"}
          /\ PossibleEdges(edges, n) # << >>
          /\ edges[PossibleEdges(edges, n)[1]].condition = "always"

\* C3: on a graph with a guarded cycle whose guard is always true the run never
\* raises, goes on until it returns, and returns after exactly MAX_STEPS (100)
\* node executions with a trace of exactly MAX_STEPS records.
C3_StepCeiling ==
    GuardedCycle =>
        /\ pc \notin {"raised", "failed"}
        /\ steps <= MAX_STEPS
        /\ Len(calls) <= MAX_STEPS
        /\ pc # "completed" => ENABLED Next
        /\ pc \in {"returned", "completed"} =>
              /\ steps = MAX_STEPS
              /\ Len(calls) = MAX_STEPS
              /\ Len(result.logs) = MAX_STEPS
        /\ pc = "completed" =>
              /\ response.status_code = 200
              /\ Len(response.logs) = MAX_STEPS

\* C3 witness: such a run has returned, with a trace of MAX_STEPS records.
C3_Witness ==
    /\ GuardedCycle
    /\ pc = "completed"
    /\ Len(response.logs) = MAX_STEPS
    /\ Len(calls) = MAX_STEPS

\* the node last routed from has no outgoing edge, or only guarded edges whose
\* guards are false on the state routed on
TerminalNode ==
    /\ Routed
    /\ \A i \in 1..Len(edges) :
          edges[i].source_node = last_route.from =>
              /\ edges[i].condition # None
              /\ ~ConditionRaises(edges[i].condition, last_route.st)
              /\ ~ConditionValue(edges[i].condition, last_route.st)

LastLog == logs[Len(logs)]

\* C4: when the run reaches a node with no outgoing edge, or whose outgoing edges
\* all have guards false on the post-update state, the run ends normally: nothing
\* is raised, that node's successful record is the last trace entry and the
\* final state is returned.
C4_TerminalDetection ==
    TerminalNode =>
        /\ pc \in {"loop", "returned", "completed"}
        /\ exc = NoExc
        /\ current_node_name = None
        /\ Len(logs) > 0
        /\ LastLog.node = last_route.from
        /\ DOMAIN LastLog = {"step", "node", "updates", "state_snapshot"}
        /\ LastLog.state_snapshot = last_route.st
        /\ dicts[state] = last_route.st
        /\ pc = "loop" => ENABLED Return
        /\ pc \in {"returned", "completed"} =>
              result = [final_state |-> state, logs |-> logs]
        /\ pc = "completed" =>
              /\ response.status_code = 200
              /\ response.logs = logs

\* C4 witness: a run ended at node A, whose only edge has a false guard.
C4_Witness ==
    /\ TerminalNode
    /\ edges = <<Edge("A", "B", "never")>>
    /\ pc = "completed"
    /\ Len(logs) = 1

ToolMissing == exc.type = "ValueError" /\ exc.msg[1] = "Tool not found"

\* C5: a node's tool is looked up when the node is reached: the run raises for a
\* missing tool only at a node naming an unregistered tool, every node before it
\* has run and merged its updates, the last trace entry is that node's error
\* record (step, node, error: no state_snapshot), and no call was made for it.
C5_LazyToolResolution ==
    /\ \A i \in 1..Len(calls) : nodes[calls[i].node] \in DOMAIN tools
    /\ ToolMissing =>
          /\ pc \in {"raised", "failed"}
          /\ current_node_name \in DOMAIN nodes
          /\ nodes[current_node_name] \notin DOMAIN tools
          /\ exc.msg[2] = nodes[current_node_name]
          /\ Len(logs) = steps + 1
          /\ LastLog = [step |-> steps, node |-> current_node_name,
                        error |-> exc.msg]
          /\ \A i \in 1..steps :
                /\ DOMAIN logs[i] = {"step", "node", "updates", "state_snapshot"}
                /\ logs[i].step = i - 1
          /\ Len(calls) = steps
          /\ dicts[state] = IF steps = 0 THEN dicts["caller"]
                            ELSE logs[steps].state_snapshot
          /\ result = NoResult

\* C5 witness: node A ran and merged an update, then node B's tool was missing.
C5_Witness ==
    /\ ToolMissing
    /\ pc = "failed"
    /\ Len(logs) = 2
    /\ logs[1].node = "A"
    /\ current_node_name = "B"
    /\ dicts[state] # dicts["caller"]

\* C6: in a step whose tool returns an update mapping, every key the update
\* holds gets the update's value, and every key it omits keeps the value the
\* working state had before the step, or stays absent (and the value's content
\* is the same too when the tool has changed no list in place).
C6_MergePreservesUntouched ==
    [][ (pc = "tool" /\ pc' # "tool" /\ ~Outcome.raised /\ Outcome.result.is_dict) =>
          \A K \in Keys :
             IF K \in DOMAIN Outcome.result.items
             THEN /\ K \in DOMAIN dicts'[state]
                  /\ dicts'[state][K] = Outcome.result.items[K]
             ELSE IF K \in DOMAIN dicts[state]
             THEN /\ K \in DOMAIN dicts'[state]
                  /\ dicts'[state][K] = dicts[state][K]
                  /\ lists' = lists =>
                        Deep(dicts'[state], lists')[K] = Deep(dicts[state], lists)[K]
             ELSE K \notin DOMAIN dicts'[state] ]_vars

\* C6 witness: a step merged an update holding quality_score and omitting
\* issue_count and log, which the state held, and another step merged an update
\* into a state without issue_count.
C6_Witness ==
    /\ \E i \in 1..Len(logs) :
          /\ "updates" \in DOMAIN logs[i]
          /\ logs[i].updates.is_dict
          /\ DOMAIN logs[i].updates.items = {"quality_score"}
          /\ DOMAIN logs[i].state_snapshot = {"issue_count", "quality_score", "log"}
    /\ \E i \in 1..Len(logs) :
          /\ "updates" \in DOMAIN logs[i]
          /\ logs[i].updates.is_dict
          /\ "issue_count" \notin DOMAIN logs[i].state_snapshot

\* the run's last record is an error record
HasErrorRecord == Len(logs) > 0 /\ "error" \in DOMAIN LastLog

\* C7: when a run fails, the caller gets the trace accumulated so far, the
\* failing step's error record included, alongside the failure.
C7_PartialTraceSurfaced ==
    pc = "failed" => runs.logs = logs

\* C8: a guard that raises during routing is handled as a tool failure is: an
\* error record with the step and the node is appended before the run aborts.
C8_GuardFailureRecorded ==
    exc.type = "GuardError" =>
        /\ HasErrorRecord
        /\ LastLog.node = last_route.from

C9_Aborted ==
    HasErrorRecord =>
        /\ pc \in {"raised", "failed"}
        /\ result = NoResult
        /\ exc.msg = LastLog.error
        /\ Cardinality({ i \in 1..Len(calls) : calls[i].step = LastLog.step }) <= 1
        /\ pc = "failed" => response = [status_code |-> 500, detail |-> exc.msg]

C9_NothingAfter ==
    HasErrorRecord =>
        /\ calls' = calls
        /\ guard_calls' = guard_calls
        /\ logs' = logs
        /\ exc' = exc
        /\ result' = result
        /\ dicts' = dicts
        /\ lists' = lists

\* C9: a failure of tool lookup or tool execution is fatal and never retried:
\* once the error record is written the run has raised that failure, it has
\* returned no result, the failing node's tool was called at most once in that
\* step, and from then on no tool is called and no guard evaluated.
C9_FatalNoRetry == [](C9_Aborted) /\ [][C9_NothingAfter]_vars

\* C9 witness: the second node's tool raised, and the request failed.
C9_Witness ==
    /\ HasErrorRecord
    /\ pc = "failed"
    /\ exc.type = "RuntimeError"
    /\ Len(calls) = 2
    /\ Len(logs) = 2

\* C10: once run has returned or raised, the caller's initial state, the values
\* it holds included, is what it was before the call.
C10_CallerStateUntouched ==
    pc \in {"returned", "completed", "raised", "failed"} =>
        Deep(dicts["caller"], lists) = caller_before

IsStepRecord(rec) == "state_snapshot" \in DOMAIN rec

\* C16: the state_snapshot of every successful trace record is a deep snapshot:
\* its content, lists included, stays what it was when the record was written,
\* whatever later steps do.
C16_DeepSnapshot ==
    [][ \A i \in 1..Len(logs) :
           IsStepRecord(logs[i]) =>
              /\ i <= Len(logs')
              /\ Deep(logs'[i].state_snapshot, lists') =
                    Deep(logs[i].state_snapshot, lists) ]_vars

\* C18: when a tool returns a value that is no mapping, the step leaves the
\* working state (and every list) as it was, records the raw value as the
\* step's updates, and routes on the unchanged state.
C18_NonMappingLeavesState ==
    [][ (pc = "tool" /\ pc' # "tool" /\ ~Outcome.raised /\ ~Outcome.result.is_dict) =>
           /\ dicts'[state] = dicts[state]
           /\ Deep(dicts'[state], lists') = Deep(dicts[state], lists)
           /\ Len(logs') = Len(logs) + 1
           /\ logs'[Len(logs')].updates = Outcome.result
           /\ logs'[Len(logs')].state_snapshot = dicts[state]
           /\ steps' = steps + 1
           /\ last_route'.from = current_node_name
           /\ last_route'.st = dicts[state]
           /\ pc' = IF last_route'.raised THEN "raised" ELSE "loop" ]_vars

\* C18 witness: a step recorded a raw return value, after a step that had set
\* issue_count, and the run went on to a third step.
C18_Witness ==
    /\ Len(logs) >= 3
    /\ IsStepRecord(logs[1])
    /\ logs[1].updates.is_dict
    /\ IsStepRecord(logs[2])
    /\ ~logs[2].updates.is_dict
    /\ logs[2].updates.raw = "ok"
    /\ logs[2].state_snapshot = logs[1].state_snapshot
    /\ "issue_count" \in DOMAIN logs[2].state_snapshot

\* the number of successful records of the trace
StepRecords == Cardinality({ i \in 1..Len(logs) : IsStepRecord(logs[i]) })

\* C20: the trace holds one record per node execution made so far (the call in
\* progress has none yet, a failed tool lookup has one); the k-th record, from
\* 0, has step k and names the k-th node visited; the successful records number
\* exactly steps; only the last record can be an error record; and the trace
\* is never longer than MAX_STEPS.
C20_TraceIndexing ==
    /\ Len(logs) <= MAX_STEPS
    /\ StepRecords = steps
    /\ \A k \in 1..Len(logs) :
          /\ logs[k].step = k - 1
          /\ ~IsStepRecord(logs[k]) => (k = Len(logs) /\ "error" \in DOMAIN logs[k])
          /\ k <= Len(calls) =>
                (logs[k].node = calls[k].node /\ logs[k].step = calls[k].step)
          /\ k > Len(calls) => (ToolMissing /\ logs[k].node = current_node_name)
    /\ Len(logs) = Len(calls) + (IF ToolMissing THEN 1 ELSE 0)
                              - (IF pc = "tool" THEN 1 ELSE 0)

\* C20 witness: a trace of two records, the second one the error record of a
\* tool that raised.
C20_Witness ==
    /\ Len(logs) = 2
    /\ steps = 1
    /\ IsStepRecord(logs[1])
    /\ "error" \in DOMAIN logs[2]
    /\ logs[2].step = 1
    /\ logs[1].node = "A"
    /\ logs[2].node = "B"
    /\ Len(calls) = 2

NodeMissing == exc.type = "ValueError" /\ exc.msg[1] = "Node not found in graph"

RunOver == pc \in {"returned", "completed", "raised", "failed"}

\* C17 as claimed: whenever the current node name is a non-empty name that is
\* no key of the graph's nodes, the run aborts with the node-not-found failure.
C17_AlwaysNodeNotFound ==
    (RunOver /\ ~Falsy(current_node_name) /\ current_node_name \notin DOMAIN nodes)
        => NodeMissing

C17_Aborted ==
    /\ (pc = "loop" /\ LoopCondition /\ current_node_name \notin DOMAIN nodes) =>
          /\ ENABLED NodeNotFound
          /\ ~ENABLED InvokeTool
          /\ ~ENABLED ToolNotFound
          /\ ~ENABLED Return
    /\ NodeMissing =>
          /\ pc \in {"raised", "failed"}
          /\ ~Falsy(current_node_name)
          /\ current_node_name \notin DOMAIN nodes
          /\ exc.msg[2] = current_node_name
          /\ steps < MAX_STEPS
          /\ Len(logs) = steps
          /\ Len(calls) = steps
          /\ \A i \in 1..Len(logs) :
                IsStepRecord(logs[i]) /\ logs[i].node # current_node_name
          /\ dicts[state] = IF steps = 0 THEN dicts["caller"]
                            ELSE logs[steps].state_snapshot
          /\ result = NoResult

C17_NothingAfter ==
    NodeMissing =>
        /\ calls' = calls
        /\ guard_calls' = guard_calls
        /\ logs' = logs
        /\ steps' = steps
        /\ dicts' = dicts
        /\ lists' = lists
        /\ result' = result

\* C17 (amended): when the loop is entered, fewer than MAX_STEPS steps being
\* done, with a non-empty current node name that is no key of the graph's
\* nodes, the run raises the node-not-found failure before any tool is looked
\* up or called for it; the earlier nodes keep their effects, nothing is
\* recorded for the missing node and no further step runs.
C17_NodeNotFound == [](C17_Aborted) /\ [][C17_NothingAfter]_vars

\* C17 witness: node A ran and merged an update, then routing gave Z, no node.
C17_Witness ==
    /\ NodeMissing
    /\ pc = "failed"
    /\ current_node_name = "Z"
    /\ steps = 1
    /\ dicts[state] # dicts["caller"]

(***************************************************************************)
(* Cancellation of the task that runs the graph.                           *)
(***************************************************************************)

\* The registered tools that are coroutine functions: _execute_tool awaits
\* them, and only there can the task be cancelled during a tool.
AsyncTools == {"dec", "append", "fail"}

\* Variant: the handler catches every BaseException, cancellation included.
Cancel_caught ==
    /\ pc = "tool"
    /\ calls[Len(calls)].func \in AsyncTools
    /\ \E ls \in {lists, Outcome.lists} : lists' = ls
    /\ LET e == [type |-> "CancelledError", msg |-> << >>]
       IN  /\ logs' = Append(logs, ErrorRecord(e))
           /\ exc' = e
    /\ pc' = "raised"
    /\ UNCHANGED <<graph_vars, registry_vars, rs, dicts, current_node_name, state, steps, result,
                   runs, response, calls, guard_calls, last_route, caller_before>>

\* engine.py lines 76, 87 and 105: asyncio.CancelledError is raised at the
\* await of the tool; it is a BaseException, so neither "except Exception" of
\* run (line 87) nor that of run_graph (main.py line 90) catches it.  The
\* tool may or may not have changed a list in place before it was suspended.
Cancel ==
    /\ pc = "tool"
    /\ calls[Len(calls)].func \in AsyncTools
    /\ \E ls \in {lists, Outcome.lists} : lists' = ls
    /\ exc' = [type |-> "CancelledError", msg |-> << >>]
    /\ pc' = "cancelled"
    /\ UNCHANGED <<graph_vars, registry_vars, rs, dicts, current_node_name, state, logs, steps,
                   result, runs, response, calls, guard_calls, last_route,
                   caller_before>>

NextCancel ==
    \/ Next
    \/ Cancel

SpecCancel == Init /\ [][NextCancel]_vars

Cancelled == exc.type = "CancelledError"

C14_Propagates ==
    Cancelled =>
        /\ pc = "cancelled"
        /\ \A i \in 1..Len(logs) : IsStepRecord(logs[i])
        /\ Len(logs) = steps
        /\ Len(calls) = steps + 1
        /\ result = NoResult
        /\ response = NoResponse
        /\ runs.status = "running"
        /\ ~ENABLED NextCancel

C14_NothingAfter ==
    Cancelled => (calls' = calls /\ logs' = logs /\ steps' = steps)

\* C14: a cancellation delivered while a tool invocation is in progress
\* propagates out of run: the failure handler does not catch it, no error
\* record is appended for it, nothing is returned, and no further node runs.
C14_CancellationPropagates == [](C14_Propagates) /\ [][C14_NothingAfter]_vars

\* C14 witness: the second node's tool is cancelled after the first completed.
C14_Witness ==
    /\ Cancelled
    /\ pc = "cancelled"
    /\ steps = 1
    /\ Len(logs) = 1
    /\ Len(calls) = 2

(***************************************************************************)
(* Runs of the code-review graph.                                          *)
(***************************************************************************)
\* Bound: the number of lines of an initial code text.
MaxLines == 2

LineShapes ==
    {LinePrint, LineIndentedPrint, LineMidPrint, LineCommentedPrint, LineDef,
     LineFlask, LineRequest}

\* The initial code texts: up to MaxLines lines joined by newlines.
InitialCodes ==
    { Join(ls, NewLine) : ls \in UNION { [1..n -> LineShapes] : n \in 0..MaxLines } }

\* code_review.py lines 83-117: create_code_review_graph(); the initial state
\* of test_workflow_script.py lines 13-16 with each initial code text.
InitReview ==
    /\ nodes = [n \in {"extract", "check", "detect", "suggest"} |->
                  CASE n = "extract" -> "extract_functions"
                    [] n = "check" -> "check_complexity"
                    [] n = "detect" -> "detect_issues"
                    [] n = "suggest" -> "suggest_improvements"]
    /\ edges = <<Edge("extract", "check", None), Edge("check", "detect", None),
                 Edge("detect", "suggest", "has_issues"),
                 Edge("suggest", "check", None)>>
    /\ start_node = "extract"
    /\ tools = [n \in ReviewTools |-> n]
    /\ Preregistered(<<"extract_functions", "check_complexity", "detect_issues",
                       "suggest_improvements">>)
    /\ \E code \in InitialCodes :
          LET st == ("code" :> StrVal(code)) @@ ("log" :> ListVal(<< >>))
          IN  /\ dicts = [d \in {"caller"} |-> st]
              /\ caller_before = st
    /\ lists = << >>
    /\ pc = "idle"
    /\ current_node_name = None
    /\ state = None
    /\ logs = << >>
    /\ steps = 0
    /\ result = NoResult
    /\ exc = NoExc
    /\ runs = << >>
    /\ response = NoResponse
    /\ calls = << >>
    /\ guard_calls = 0
    /\ last_route = NoRoute
    /\ rs = << >>

NextReview ==
    \/ RunGraph
    \/ Return
    \/ InvokeTool
    \/ ToolReturns
    \/ RunCompleted

SpecReview == InitReview /\ [][NextReview]_vars

InitialCode == caller_before["code"].v

FinalCode == dicts[state]["code"].v

\* the text of a line without the whitespace around it
Bare(line) == LStrip(RStrip(line))

\* every print( of the text begins its line, or stands in a comment line
PrintsBeginLines(code) ==
    \A n \in 1..Len(Split(code, NewLine)) :
        LET line == Bare(Split(code, NewLine)[n])
        IN  \/ StartsWith(line, Hash)
            \/ \A i \in 1..Len(line) :
                  StartsWith(SubSeq(line, i, Len(line)), PrintCall) => i = 1

HasActivePrint(code) ==
    \E n \in 1..Len(Split(code, NewLine)) :
        LET line == Split(code, NewLine)[n]
        IN  Contains(line, PrintCall) /\ ~StartsWith(Bare(line), Hash)

\* C11: the code-review graph started on code whose print( calls each begin
\* their line raises nothing, ends in fewer than MAX_STEPS steps at a node
\* without a matching edge, with issue_count 0 and no line of the final code
\* containing print( outside a comment.
C11_ReviewConverges ==
    PrintsBeginLines(InitialCode) =>
        /\ pc \notin {"raised", "failed"}
        /\ steps < MAX_STEPS
        /\ pc \in {"returned", "completed"} =>
              /\ current_node_name = None
              /\ GetInt(dicts[state], "issue_count", 1) = 0
              /\ ~HasActivePrint(FinalCode)

\* C11 witness: an indented print call was found, commented out, and the
\* second pass found nothing.
C11_Witness ==
    /\ pc = "completed"
    /\ HasActivePrint(InitialCode)
    /\ PrintsBeginLines(InitialCode)
    /\ Contains(InitialCode, LineIndentedPrint)
    /\ ~HasActivePrint(FinalCode)
    /\ steps = 6

\* C19: in every run of the code-review graph, whatever the initial code
\* text, the detect pass that follows a suggest step reports no issue, and
\* the run ends below the step ceiling.
C19_SuggestFixes ==
    /\ \A i \in 1..Len(logs) : \A j \in 1..Len(logs) :
          (i < j /\ logs[i].node = "suggest" /\ logs[j].node = "detect") =>
              logs[j].state_snapshot["issue_count"].v = 0
    /\ steps < MAX_STEPS

(***************************************************************************)
(* The tool registry on its own: register, get_tool and list_tools called  *)
(* in any order.                                                           *)
(***************************************************************************)
\* Bound: the number of register calls.
MaxRegisters == 3

RegistryNames == {"a", "b", "c"}
Callables == {"f", "g"}

\* registry.py lines 12-13 and 35: the registry as constructed
InitRegistry ==
    /\ tools = << >>
    /\ tool_keys = << >>
    /\ registered = << >>
    /\ lookup = NoLookup
    /\ nodes = << >>
    /\ edges = << >>
    /\ start_node = None
    /\ dicts = << >>
    /\ lists = << >>
    /\ caller_before = << >>
    /\ pc = "registry"
    /\ current_node_name = None
    /\ state = None
    /\ logs = << >>
    /\ steps = 0
    /\ result = NoResult
    /\ exc = NoExc
    /\ runs = << >>
    /\ response = NoResponse
    /\ calls = << >>
    /\ guard_calls = 0
    /\ last_route = NoRoute
    /\ rs = << >>

run_vars ==
    <<nodes, edges, start_node, dicts, lists, pc, current_node_name, state, logs,
      steps, result, exc, runs, response, calls, guard_calls, last_route,
      caller_before, rs>>

\* Variant: a name that is bound keeps its first callable (dict.setdefault).
Register_keep_first(name, func) ==
    /\ pc = "registry"
    /\ Len(registered) < MaxRegisters
    /\ tools' = tools @@ (name :> func)
    /\ tool_keys' = IF name \in DOMAIN tools THEN tool_keys ELSE Append(tool_keys, name)
    /\ registered' = Append(registered, [name |-> name, func |-> func])
    /\ lookup' = [op |-> "register", name |-> name, raised |-> FALSE, value |-> << >>]
    /\ UNCHANGED run_vars

\* registry.py lines 15-19: self._tools[name] = func
Register(name, func) ==
    /\ pc = "registry"
    /\ Len(registered) < MaxRegisters
    /\ tools' = (name :> func) @@ tools
    /\ tool_keys' = IF name \in DOMAIN tools THEN tool_keys ELSE Append(tool_keys, name)
    /\ registered' = Append(registered, [name |-> name, func |-> func])
    /\ lookup' = [op |-> "register", name |-> name, raised |-> FALSE, value |-> << >>]
    /\ UNCHANGED run_vars

\* registry.py lines 21-27
GetTool(name) ==
    /\ pc = "registry"
    /\ lookup' = IF name \notin DOMAIN tools
                 THEN [op |-> "get_tool", name |-> name, raised |-> TRUE,
                       value |-> <<"Tool not found", name>>]
                 ELSE [op |-> "get_tool", name |-> name, raised |-> FALSE,
                       value |-> <<tools[name]>>]
    /\ UNCHANGED <<tools, tool_keys, registered, run_vars>>

\* registry.py lines 29-31
ListTools ==
    /\ pc = "registry"
    /\ lookup' = [op |-> "list_tools", name |-> None, raised |-> FALSE,
                  value |-> tool_keys]
    /\ UNCHANGED <<tools, tool_keys, registered, run_vars>>

NextRegistry ==
    \/ \E name \in RegistryNames, func \in Callables : Register(name, func)
    \/ \E name \in RegistryNames : GetTool(name)
    \/ ListTools

SpecRegistry == InitRegistry /\ [][NextRegistry]_vars

RegisteredNames == { registered[i].name : i \in 1..Len(registered) }

\* the callable of the last register call made under name
Latest(name) ==
    LET at == { i \in 1..Len(registered) : registered[i].name = name }
    IN  registered[CHOOSE i \in at : \A j \in at : j <= i].func

C15_Bindings ==
    /\ DOMAIN tools = RegisteredNames
    /\ \A name \in RegisteredNames : tools[name] = Latest(name)
    /\ lookup.op = "get_tool" =>
          IF lookup.name \in RegisteredNames
          THEN ~lookup.raised /\ lookup.value = <<Latest(lookup.name)>>
          ELSE lookup.raised /\ lookup.value = <<"Tool not found", lookup.name>>
    /\ lookup.op = "list_tools" =>
          /\ ~lookup.raised
          /\ { lookup.value[i] : i \in 1..Len(lookup.value) } = RegisteredNames
          /\ Len(lookup.value) = Cardinality(RegisteredNames)

C15_LookupChangesNothing ==
    lookup'.op \in {"get_tool", "list_tools"} =>
        (tools' = tools /\ tool_keys' = tool_keys /\ registered' = registered)

\* C15: after any sequence of register calls, get_tool(name) returns the
\* callable of the last register call under name; get_tool of a name never
\* registered raises the error that names it; no lookup changes the
\* registry; list_tools gives exactly the registered names.
C15_Registry == [](C15_Bindings) /\ [][C15_LookupChangesNothing]_vars

\* C15 witness: a name registered twice with different callables, looked up.
C15_Witness ==
    /\ pc = "registry"
    /\ Len(registered) >= 2
    /\ registered[1].name = registered[2].name
    /\ registered[1].func # registered[2].func
    /\ lookup.op = "get_tool"
    /\ lookup.name = registered[2].name
    /\ lookup.value = <<registered[2].func>>

(***************************************************************************)
(* Several runs of Graph.run over one Graph and one registry, as tasks of  *)
(* one event loop.  A run is left at the await of its tool, so the steps   *)
(* of the runs interleave there; one run after the other is one of the     *)
(* interleavings.                                                          *)
(***************************************************************************)
RunIds == {1, 2}

WorkName(r) == IF r = 1 THEN "work1" ELSE "work2"

\* Graphs without a cycle, so that the runs are short.
ConcurrentEdgeLists ==
    { << >>,
      <<Edge("A", "B", None)>>,
      <<Edge("A", "B", "has_issues"), Edge("A", "Z", None)>>,
      <<Edge("A", "Z", None)>> }

\* what a caller reads from a state and a trace at some moment
DeepLogs(ls, heap) ==
    [i \in 1..Len(ls) |->
        IF "state_snapshot" \in DOMAIN ls[i]
        THEN [ls[i] EXCEPT !.state_snapshot = Deep(@, heap)]
        ELSE ls[i]]

NoObserved == [final_state |-> << >>, logs |-> << >>]

\* Two calls graph.run(initial_state, registry): the initial states are one
\* dict object passed twice, or two dict objects each with its own log list.
InitConcurrent ==
    /\ nodes \in [NodeNames -> {"dec", "append", "nonmap", "fail"}]
    /\ edges \in ConcurrentEdgeLists
    /\ start_node = "A"
    /\ tools = [n \in Registered |-> n]
    /\ Preregistered(RegisteredOrder)
    /\ \E st1 \in InitialStates, st2 \in InitialStates, second \in {"caller1", "caller2"} :
          /\ GetInt(st1, "issue_count", 0) <= MaxVal
          /\ GetInt(st2, "issue_count", 0) <= MaxVal
          /\ dicts = ("caller1" :> st1) @@ ("caller2" :> [st2 EXCEPT !["log"] = RefVal(2)])
          /\ lists = [r \in {1, 2} |-> << >>]
          /\ rs = [r \in RunIds |->
                     [pc |-> "idle",
                      initial_state |-> IF r = 1 THEN "caller1" ELSE second,
                      current_node_name |-> None, state |-> None, logs |-> << >>,
                      steps |-> 0, result |-> NoResult, exc |-> NoExc,
                      observed |-> NoObserved]]
          /\ caller_before =
                [r \in RunIds |->
                    Deep(IF r = 1 \/ second = "caller1" THEN st1 ELSE st2,
                         [l \in {1, 2} |-> << >>])]
    /\ pc = "concurrent"
    /\ current_node_name = None
    /\ state = None
    /\ logs = << >>
    /\ steps = 0
    /\ result = NoResult
    /\ exc = NoExc
    /\ runs = << >>
    /\ response = NoResponse
    /\ calls = << >>
    /\ guard_calls = 0
    /\ last_route = NoRoute

single_run_vars ==
    <<pc, current_node_name, state, logs, steps, result, exc, runs, response,
      calls, guard_calls, last_route, caller_before>>

\* engine.py lines 57-61, for run r
StartRun(r) ==
    /\ rs[r].pc = "idle"
    /\ dicts' = (WorkName(r) :> dicts[rs[r].initial_state]) @@ dicts
    /\ rs' = [rs EXCEPT ![r] = [@ EXCEPT !.pc = "loop",
                                         !.current_node_name = start_node,
                                         !.state = WorkName(r),
                                         !.logs = << >>,
                                         !.steps = 0]]
    /\ UNCHANGED <<graph_vars, registry_vars, lists, single_run_vars>>

\* engine.py lines 63-76 and 100, for run r: the loop test, the node and tool
\* lookups, up to the await of the tool
EnterLoop(r) ==
    LET me == rs[r]
        name == me.current_node_name
        failure(e, ls) ==
            [me EXCEPT !.pc = "raised", !.exc = e, !.logs = ls,
                       !.observed = [final_state |-> << >>,
                                     logs |-> DeepLogs(ls, lists)]]
    IN  /\ me.pc = "loop"
        /\ rs' = [rs EXCEPT ![r] =
              IF Falsy(name) \/ me.steps >= MAX_STEPS
              THEN [me EXCEPT !.pc = "returned",
                              !.result = [final_state |-> me.state, logs |-> me.logs],
                              !.observed = [final_state |-> Deep(dicts[me.state], lists),
                                            logs |-> DeepLogs(me.logs, lists)]]
              ELSE IF name \notin DOMAIN nodes
              THEN failure([type |-> "ValueError",
                            msg |-> <<"Node not found in graph", name>>], me.logs)
              ELSE IF nodes[name] \notin DOMAIN tools
              THEN failure([type |-> "ValueError",
                            msg |-> <<"Tool not found", nodes[name]>>],
                           Append(me.logs,
                                  [step |-> me.steps, node |-> name,
                                   error |-> <<"Tool not found", nodes[name]>>]))
              ELSE [me EXCEPT !.pc = "tool"]]
        /\ UNCHANGED <<graph_vars, registry_vars, dicts, lists, single_run_vars>>

\* engine.py lines 76-98, for run r: the tool completes; merge, record, count
\* and route, or record the failure and raise
FinishTool(r) ==
    LET me == rs[r]
        name == me.current_node_name
        out == CallTool(tools[nodes[name]], dicts[me.state], lists)
        merged == Merge(dicts[me.state], out.result)
        route == RouteRecord(edges, name, merged)
        record == [step |-> me.steps, node |-> name, updates |-> out.result,
                   state_snapshot |-> merged]
        e == [type |-> out.result.raw, msg |-> <<out.result.raw>>]
        failed == Append(me.logs, [step |-> me.steps, node |-> name, error |-> e.msg])
    IN  /\ me.pc = "tool"
        /\ lists' = out.lists
        /\ IF out.raised
           THEN /\ rs' = [rs EXCEPT ![r] =
                            [me EXCEPT !.pc = "raised", !.exc = e, !.logs = failed,
                                       !.observed = [final_state |-> << >>,
                                                     logs |-> DeepLogs(failed, out.lists)]]]
                /\ UNCHANGED dicts
           ELSE /\ dicts' = [dicts EXCEPT ![me.state] = merged]
                /\ rs' = [rs EXCEPT ![r] =
                            IF route.raised
                            THEN [me EXCEPT !.logs = Append(me.logs, record),
                                            !.steps = me.steps + 1,
                                            !.pc = "raised",
                                            !.exc = [type |-> "GuardError",
                                                     msg |-> <<"GuardError">>],
                                            !.observed =
                                                [final_state |-> << >>,
                                                 logs |-> DeepLogs(Append(me.logs, record),
                                                                   out.lists)]]
                            ELSE [me EXCEPT !.logs = Append(me.logs, record),
                                            !.steps = me.steps + 1,
                                            !.current_node_name = route.target,
                                            !.pc = "loop"]]
        /\ UNCHANGED <<graph_vars, registry_vars, single_run_vars>>

NextConcurrent ==
    \/ \E r \in RunIds : StartRun(r)
    \/ \E r \in RunIds : EnterLoop(r)
    \/ \E r \in RunIds : FinishTool(r)

SpecConcurrent == InitConcurrent /\ [][NextConcurrent]_vars


\* what run q holds at this moment: its working state and its trace, lists included
Held(q) ==
    [state |-> Deep(dicts[rs[q].state], lists), logs |-> DeepLogs(rs[q].logs, lists)]

RunDone(q) == rs[q].pc \in {"returned", "raised"}

\* C12: concurrent runs over one Graph and one registry are isolated: a step
\* of one run changes neither the working state nor the trace of another
\* run, whatever the interleaving.
C12_RunsIsolated ==
    [][ \A q \in RunIds :
           (rs[q].pc \notin {"idle"} /\ rs'[q] = rs[q]) => Held(q)' = Held(q) ]_vars

\* what the caller of run q got: how the run ended and what it handed back
Got(q) ==
    [pc |-> rs[q].pc, exc |-> rs[q].exc, steps |-> rs[q].steps,
     visited |-> [i \in 1..Len(rs[q].logs) |-> rs[q].logs[i].node],
     observed |-> rs[q].observed]

\* C13: two runs of one Graph with one registry from the same initial state
\* end the same way: same visited nodes, same trace, same final state, or
\* the same failure at the same step.
C13_Deterministic ==
    (RunDone(1) /\ RunDone(2) /\ caller_before[1] = caller_before[2]) => Got(1) = Got(2)

====
